---- MODULE Spec2Model ----
(***************************************************************************)
(* A model of the data preparation pipeline of the UT Austin grades         *)
(* dashboard (src/src/data_preparation.py).                                 *)
(*                                                                          *)
(* Representation.  A Python str is a sequence of one-character strings,   *)
(* so that split, replace, slicing, concatenation and integer parsing are  *)
(* computed, not assumed.  A float that holds a count is a natural number; *)
(* a GPA is held in hundredths (3.67 is 367); a quotient of two floats is  *)
(* the pair <<numerator, denominator>> until it is rounded, and a rounded  *)
(* average is held in units of 0.0001.  Binary floating-point error is not *)
(* modelled.  A missing value (NaN) is NA in a string column and NaN in a  *)
(* float column.                                                           *)
(***************************************************************************)
EXTENDS Integers, Sequences, FiniteSets, TLC

(***************************************************************************)
(* Bounds of the model.                                                    *)
(***************************************************************************)
\* raw rows per input file, aggregation inputs
MaxRows == 2
\* raw rows per input file, semester inputs
MaxSemRows == 3
\* characters of a course number, course-number inputs
MaxNumLen == 3
\* rows of prefix_to_college.csv
MaxMapRows == 2

(***************************************************************************)
(* Strings.                                                                *)
(***************************************************************************)
\* missing value of a string (object) column
NA == <<"nan">>
\* missing value of a float column
NaN == -1

\* the characters of the model in code-point order (Python's str order)
CharOrd ==
  <<" ", "+", ",", "-", "0", "1", "2", "3", "4", "5", "6", "7", "8", "9",
    "A", "B", "C", "D", "E", "F", "G", "I", "K", "L", "N", "O", "R", "S", "U", "W", "X",
    "a", "b", "c", "d", "e", "g", "h", "i", "l", "m", "n", "o", "p", "r", "s", "t", "u", "w", "y">>

Ord(c) == CHOOSE i \in 1..Len(CharOrd) : CharOrd[i] = c

Digits == <<"0", "1", "2", "3", "4", "5", "6", "7", "8", "9">>

IsDigit(c) == \E i \in 1..10 : Digits[i] = c

DigitVal(c) == (CHOOSE i \in 1..10 : Digits[i] = c) - 1

\* Python's s1 < s2 on str
RECURSIVE StrLess(_, _)
StrLess(s, t) ==
  IF t = <<>> THEN FALSE
  ELSE IF s = <<>> THEN TRUE
  ELSE IF s[1] # t[1] THEN Ord(s[1]) < Ord(t[1])
  ELSE StrLess(Tail(s), Tail(t))

\* s.split(' '): cut at every single space, empty pieces kept
RECURSIVE Split(_)
Split(s) ==
  IF \A i \in 1..Len(s) : s[i] # " " THEN <<s>>
  ELSE LET i == CHOOSE j \in 1..Len(s) : s[j] = " " /\ \A k \in 1..(j-1) : s[k] # " "
       IN  <<SubSeq(s, 1, i - 1)>> \o Split(SubSeq(s, i + 1, Len(s)))

\* .str[i] on a Series of lists (0-based): the element, or missing
StrGet(l, i) == IF i + 1 <= Len(l) THEN l[i + 1] ELSE NA

\* s.replace(',', '')
RemoveCommas(s) == SelectSeq(s, LAMBDA c : c # ",")

\* s.replace(r'\D', '', regex=True)
RemoveNonDigits(s) == SelectSeq(s, IsDigit)

\* s[1:]
DropFirst(s) == SubSeq(s, 2, Len(s))

\* whether int(s) / float(s) succeeds, for s of digits, letters and signs only
IsNumeric(s) == s # NA /\ Len(s) > 0 /\ \A i \in 1..Len(s) : IsDigit(s[i])

RECURSIVE ToInt(_)
ToInt(s) == IF s = <<>> THEN 0 ELSE 10 * ToInt(SubSeq(s, 1, Len(s) - 1)) + DigitVal(s[Len(s)])

\* str(n) of a natural number
RECURSIVE IntToStr(_)
IntToStr(n) == IF n < 10 THEN <<Digits[n + 1]>> ELSE IntToStr(n \div 10) \o <<Digits[(n % 10) + 1]>>

(***************************************************************************)
(* String literals of the program and of the inputs.                       *)
(***************************************************************************)
sAll == <<"A", "l", "l">>
sOther == <<"O", "t", "h", "e", "r">>
sFall == <<"F", "a", "l", "l">>
sSpring == <<"S", "p", "r", "i", "n", "g">>
sSummer == <<"S", "u", "m", "m", "e", "r">>
sERROR == <<"E", "R", "R", "O", "R">>
sLower == <<"L", "o", "w", "e", "r">>
sUpper == <<"U", "p", "p", "e", "r">>
sGraduate == <<"G", "r", "a", "d", "u", "a", "t", "e">>
sA == <<"A">>
sAplus == <<"A", "+">>
sAminus == <<"A", "-">>
sF == <<"F">>
sCS == <<"C", "S">>
sUDN == <<"U", "D", "N">>
sECE == <<"E", "C", "E">>
sUrbanDesign == <<"U", "r", "b", "a", "n", " ", "D", "e", "s", "i", "g", "n">>
sElectricalEngineering ==
  <<"E", "l", "e", "c", "t", "r", "i", "c", "a", "l", " ",
    "E", "n", "g", "i", "n", "e", "e", "r", "i", "n", "g">>
sNaturalSciences ==
  <<"N", "a", "t", "u", "r", "a", "l", " ", "S", "c", "i", "e", "n", "c", "e", "s">>
sLAW == <<"L", "A", "W">>
sComputerScience ==
  <<"C", "o", "m", "p", "u", "t", "e", "r", " ", "S", "c", "i", "e", "n", "c", "e">>

(***************************************************************************)
(* Fixed lookup tables of load_and_engineer_data.                          *)
(***************************************************************************)
\* grade_to_gpa, in hundredths
grade_to_gpa(g) ==
  CASE g = <<"A", "+">> -> 400 [] g = <<"A">> -> 400 [] g = <<"A", "-">> -> 367
    [] g = <<"B", "+">> -> 333 [] g = <<"B">> -> 300 [] g = <<"B", "-">> -> 267
    [] g = <<"C", "+">> -> 233 [] g = <<"C">> -> 200 [] g = <<"C", "-">> -> 167
    [] g = <<"D", "+">> -> 133 [] g = <<"D">> -> 100 [] g = <<"D", "-">> -> 67
    [] g = <<"F">> -> 0 [] g = sOther -> NaN

GradeAlphabet ==
  {<<"A", "+">>, <<"A">>, <<"A", "-">>, <<"B", "+">>, <<"B">>, <<"B", "-">>,
   <<"C", "+">>, <<"C">>, <<"C", "-">>, <<"D", "+">>, <<"D">>, <<"D", "-">>,
   <<"F">>, sOther}

\* null_dept_mapping.get(prefix, '')
null_dept_mapping(p) ==
  IF p = sUDN THEN sUrbanDesign
  ELSE IF p = sECE THEN sElectricalEngineering
  ELSE <<>>

(***************************************************************************)
(* Row-wise feature engineering of load_and_engineer_data.                 *)
(***************************************************************************)
\* pd.read_csv: an empty field is read as a missing value
read_csv_field(s) == IF s = <<>> THEN NA ELSE s

\* dict(zip(COURSE_CODE, COLLEGE)): the last row of a code wins
prefix_to_college_dict(map, p) ==
  LET hits == {i \in 1..Len(map) : map[i].COURSE_CODE = p}
  IN  IF hits = {} THEN NA
      ELSE map[CHOOSE i \in hits : \A j \in hits : j <= i].COLLEGE

\* set(prefix_to_college_dict.values())
all_colleges(map) ==
  {prefix_to_college_dict(map, map[i].COURSE_CODE) : i \in 1..Len(map)}

\* course_prefix.replace(prefix_to_college_dict), then the known-college test
college(map, p) ==
  LET replaced == IF prefix_to_college_dict(map, p) = NA THEN p
                  ELSE prefix_to_college_dict(map, p)
  IN  IF replaced \in all_colleges(map) THEN replaced ELSE sOther

num_students_raises(r) == ~IsNumeric(RemoveCommas(r.num_students))

num_students(r) == ToInt(RemoveCommas(r.num_students))

\* letter_grade.replace({'A+': 'A'})
letter_grade(r) == IF r.letter_grade = sAplus THEN sA ELSE r.letter_grade

\* a grade outside the table stays a str, and str * float raises
gpa_raises(r) == letter_grade(r) \notin GradeAlphabet

gpa(r) == grade_to_gpa(letter_grade(r))

semester_name(r) == StrGet(Split(r.semester), 0)

\* the last token taken for the second
year_token_last(r) == Split(r.semester)[Len(Split(r.semester))]

\* df_['semester'].str.split(' ').str[1]
year_token(r) == StrGet(Split(r.semester), 1)

\* .astype(int) raises on a missing or non-integer token
semester_year_raises(r) == ~IsNumeric(year_token(r))

semester_year(r) == ToInt(year_token(r))

course_display_name(r) == r.course_prefix \o <<" ">> \o r.course_number

\* NaN * n is NaN
gpa_sum(r) == IF gpa(r) = NaN THEN NaN ELSE gpa(r) * num_students(r)

course_number_int_raises(r) == ~IsNumeric(DropFirst(RemoveNonDigits(r.course_number)))

course_number_int(r) == ToInt(DropFirst(RemoveNonDigits(r.course_number)))

\* the thresholds one off
DivisionOneOff(n) ==
  IF n > 80 THEN sGraduate
  ELSE IF n > 20 THEN sUpper
  ELSE sLower

\* np.select([n > 79, n > 19], ['Graduate', 'Upper'], default='Lower')
Division(n) ==
  IF n > 79 THEN sGraduate
  ELSE IF n > 19 THEN sUpper
  ELSE sLower

\* row['department'] if row['department'] != '' else null_dept_mapping.get(prefix, '')
department(r) ==
  LET d == read_csv_field(r.department)
  IN  IF d # <<>> THEN d ELSE null_dept_mapping(r.course_prefix)

month_and_day(r) ==
  IF semester_name(r) = sFall THEN <<"-", "0", "8", "-", "2", "5">>
  ELSE IF semester_name(r) = sSpring THEN <<"-", "0", "1", "-", "2", "0">>
  ELSE IF semester_name(r) = sSummer THEN <<"-", "0", "6", "-", "0", "1">>
  ELSE sERROR

\* pd.to_datetime of a 'YYYY-MM-DD' string; anything else ('2021ERROR') does
\* not parse.  The years of the inputs have four digits.
IsDateString(s) ==
  /\ Len(s) = 10
  /\ s[5] = "-" /\ s[8] = "-"
  /\ \A i \in {1, 2, 3, 4, 6, 7, 9, 10} : IsDigit(s[i])

to_datetime(s) ==
  ToInt(SubSeq(s, 1, 4)) * 10000 + ToInt(SubSeq(s, 6, 7)) * 100 + ToInt(SubSeq(s, 9, 10))

date_string(r) == IntToStr(semester_year(r)) \o month_and_day(r)

date_raises(r) == ~IsDateString(date_string(r))

\* a conversion of the assign chain raises on this row
RowRaises(r) ==
  \/ num_students_raises(r)
  \/ gpa_raises(r)
  \/ semester_year_raises(r)
  \/ course_number_int_raises(r)
  \/ date_raises(r)

\* the enriched row (course_full_name and section_number feed no aggregate
\* and are left out)
Enrich(map, r) ==
  [course_prefix |-> r.course_prefix,
   course_number |-> r.course_number,
   department |-> department(r),
   semester |-> r.semester,
   letter_grade |-> letter_grade(r),
   num_students |-> num_students(r),
   college |-> college(map, r.course_prefix),
   gpa |-> gpa(r),
   semester_name |-> semester_name(r),
   semester_year |-> semester_year(r),
   course_display_name |-> course_display_name(r),
   gpa_sum |-> gpa_sum(r),
   course_number_int |-> course_number_int(r),
   Division |-> Division(course_number_int(r)),
   date |-> to_datetime(date_string(r))]

\* Series.unique(): the values in order of first appearance
RECURSIVE Unique(_)
Unique(s) ==
  IF s = <<>> THEN <<>>
  ELSE LET init == Unique(SubSeq(s, 1, Len(s) - 1))
           last == s[Len(s)]
       IN  IF \E i \in 1..Len(init) : init[i] = last THEN init ELSE Append(init, last)

\* the frame left in input order
SortOrdersUnsorted(frame) == {[i \in 1..Len(frame) |-> i]}

\* the row orders sort_values('date') may produce: ascending by date, rows of
\* equal date in an order the (unstable) default sort does not fix
SortOrders(frame) ==
  {p \in [1..Len(frame) -> 1..Len(frame)] :
     /\ \A i, j \in 1..Len(frame) : i # j => p[i] # p[j]
     /\ \A i, j \in 1..Len(frame) : i < j => frame[p[i]].date <= frame[p[j]].date}

SemestersOf(frame, p) == Unique([i \in 1..Len(frame) |-> frame[p[i]].semester])

(***************************************************************************)
(* The aggregators.  A frame is a sequence of enriched rows; a group key   *)
(* is the tuple of the values of the groupby columns.                      *)
(***************************************************************************)
RECURSIVE SeqSum(_)
SeqSum(s) == IF s = <<>> THEN 0 ELSE s[1] + SeqSum(Tail(s))

\* order of two group keys, column by column from column i on: the columns
\* of nums hold floats, ordered by value, the others strings, ordered as Python does
RECURSIVE KeyLessFrom(_, _, _, _)
KeyLessFrom(k1, k2, nums, i) ==
  IF i > Len(k1) THEN FALSE
  ELSE IF k1[i] # k2[i]
       THEN IF i \in nums THEN k1[i] < k2[i] ELSE StrLess(k1[i], k2[i])
  ELSE KeyLessFrom(k1, k2, nums, i + 1)

KeyLess(k1, k2, nums) == KeyLessFrom(k1, k2, nums, 1)

\* groupby(sort=True): the group keys in ascending order
RECURSIVE SortKeys(_, _)
SortKeys(S, nums) ==
  IF S = {} THEN <<>>
  ELSE LET m == CHOOSE k \in S : \A o \in S : o = k \/ KeyLess(k, o, nums)
       IN  <<m>> \o SortKeys(S \ {m}, nums)

\* a key with a missing value forms no group (groupby's default dropna=True)
HasMissing(k, nums) ==
  \E i \in 1..Len(k) : IF i \in nums THEN k[i] = NaN ELSE k[i] = NA

PrefixKey(row) == <<row.college, row.course_prefix, row.department>>

CourseKey(row) ==
  <<row.college, row.course_prefix, row.course_number, row.department,
    row.course_display_name, row.Division>>

BarKey(row) ==
  <<row.college, row.course_prefix, row.course_number, row.department,
    row.letter_grade, row.gpa, row.course_display_name>>

\* the float columns of the keys: gpa, the sixth column of the bar key
NoFloatColumns == {}
BarFloatColumns == {6}

\* a query that keeps every row
QueryWhole(frame, semester) == frame

\* df.query("semester == @semester")
Query(frame, semester) == SelectSeq(frame, LAMBDA row : row.semester = semester)

\* agg(total_students=('num_students', 'sum')) of the group of key k
TotalStudents(keys, k) ==
  SeqSum([i \in 1..Len(keys) |-> IF keys[i][1] = k THEN keys[i][2].num_students ELSE 0])

\* agg(gpa_total=('gpa_sum', 'sum')) of the group of key k: sum skips NaN
GpaTotal(keys, k) ==
  SeqSum([i \in 1..Len(keys) |->
            IF keys[i][1] = k /\ keys[i][2].gpa_sum # NaN THEN keys[i][2].gpa_sum ELSE 0])

\* a guarded division that answers 0 for a zero denominator
TrueDivideGuarded(a, b) == IF b = 0 THEN <<0, 1>> ELSE <<a, b>>

\* x['gpa_total'] / x['total_students'] on floats: the quotient, 0.0/0.0 is NaN
TrueDivide(a, b) == <<a, b>>

\* truncation to 4 decimals
Round4Truncate(q) == IF q[2] = 0 THEN NaN ELSE (q[1] * 100) \div q[2]

\* round(4), half to even, in units of 0.0001 of a quotient of hundredths
Round4(q) ==
  IF q[2] = 0 THEN NaN
  ELSE LET n == q[1] * 100
           d == q[2]
           lo == n \div d
           r == n % d
       IN  IF 2 * r < d THEN lo
           ELSE IF 2 * r > d THEN lo + 1
           ELSE IF lo % 2 = 0 THEN lo ELSE lo + 1

\* the keys present in a frame, with dropna
GroupKeys(keyed, nums) ==
  {keyed[i][1] : i \in {j \in 1..Len(keyed) : ~HasMissing(keyed[j][1], nums)}}

\* one groupby/agg/reset_index/assign pass of create_prefix_scatter_df
PrefixPass(frame, label) ==
  LET keyed == [i \in 1..Len(frame) |-> <<PrefixKey(frame[i]), frame[i]>>]
      ks == SortKeys(GroupKeys(keyed, NoFloatColumns), NoFloatColumns)
  IN  [i \in 1..Len(ks) |->
         [college |-> ks[i][1], course_prefix |-> ks[i][2], department |-> ks[i][3],
          total_students |-> TotalStudents(keyed, ks[i]),
          gpa_total |-> GpaTotal(keyed, ks[i]),
          avg_gpa |-> TrueDivide(GpaTotal(keyed, ks[i]), TotalStudents(keyed, ks[i])),
          semester |-> label]]

\* one pass of create_course_scatter_df
CoursePass(frame, label) ==
  LET keyed == [i \in 1..Len(frame) |-> <<CourseKey(frame[i]), frame[i]>>]
      ks == SortKeys(GroupKeys(keyed, NoFloatColumns), NoFloatColumns)
  IN  [i \in 1..Len(ks) |->
         [college |-> ks[i][1], course_prefix |-> ks[i][2], course_number |-> ks[i][3],
          department |-> ks[i][4], course_display_name |-> ks[i][5],
          Division |-> ks[i][6],
          total_students |-> TotalStudents(keyed, ks[i]),
          gpa_total |-> GpaTotal(keyed, ks[i]),
          avg_gpa |-> TrueDivide(GpaTotal(keyed, ks[i]), TotalStudents(keyed, ks[i])),
          semester |-> label]]

\* one pass of create_bar_df
BarPass(frame, label) ==
  LET keyed == [i \in 1..Len(frame) |-> <<BarKey(frame[i]), frame[i]>>]
      ks == SortKeys(GroupKeys(keyed, BarFloatColumns), BarFloatColumns)
  IN  [i \in 1..Len(ks) |->
         [college |-> ks[i][1], course_prefix |-> ks[i][2], course_number |-> ks[i][3],
          department |-> ks[i][4], letter_grade |-> ks[i][5], gpa |-> ks[i][6],
          course_display_name |-> ks[i][7],
          total_students |-> TotalStudents(keyed, ks[i]),
          semester |-> label]]

\* pd.concat of a list of frames
RECURSIVE Concat(_)
Concat(frames) == IF frames = <<>> THEN <<>> ELSE frames[1] \o Concat(Tail(frames))

\* .assign(**{'Average Grade': x['Average Grade'].round(4)})
RoundAverage(table) ==
  [i \in 1..Len(table) |-> [table[i] EXCEPT !.avg_gpa = Round4(table[i].avg_gpa)]]

\* the renames of the three tables relabel columns only; the model keeps the
\* names the columns have before them
create_prefix_scatter_df(frame, sems) ==
  RoundAverage(Concat(<<PrefixPass(frame, sAll)>>
                      \o [i \in 1..Len(sems) |-> PrefixPass(Query(frame, sems[i]), sems[i])]))

create_course_scatter_df(frame, sems) ==
  RoundAverage(Concat(<<CoursePass(frame, sAll)>>
                      \o [i \in 1..Len(sems) |-> CoursePass(Query(frame, sems[i]), sems[i])]))

create_bar_df(frame, sems) ==
  Concat(<<BarPass(frame, sAll)>>
         \o [i \in 1..Len(sems) |-> BarPass(Query(frame, sems[i]), sems[i])])

(***************************************************************************)
(* State: the two raw files, the position of prepare_data, its locals and  *)
(* the files of data/processed; what an earlier run of prepare_data on the  *)
(* same files returned; the flags, position and printed steps of main, the  *)
(* files of output/ and the file main tells the user to open.               *)
(***************************************************************************)
VARIABLES raw, prefix_to_college, pc, error, df, semesters,
          prefix_scatter_df, course_scatter_df, bar_df, processed,
          first, args, mpc, trace, output, announced

\* the state of main
mainVars == <<args, mpc, trace, output, announced>>

vars == <<raw, prefix_to_college, pc, error, df, semesters,
          prefix_scatter_df, course_scatter_df, bar_df, processed,
          first, args, mpc, trace, output, announced>>

PrefixFile == "prefix_scatter_df.csv"
CourseFile == "course_scatter_df.csv"
BarFile == "bar_df.csv"

RawRow(p, n, d, s, g, c) ==
  [course_prefix |-> p, course_number |-> n, department |-> d, semester |-> s,
   letter_grade |-> g, num_students |-> c]

\* the sequences over S of length 1..n
SeqsUpTo(S, n) == UNION {[1..k -> S] : k \in 1..n}

\* prefix_to_college.csv of the inputs
PrefixCollegeRows == <<[COURSE_CODE |-> sCS, COLLEGE |-> sNaturalSciences]>>

sFall2021 == sFall \o <<" ", "2", "0", "2", "1">>
sSpring2021 == sSpring \o <<" ", "2", "0", "2", "1">>
sSummer2021 == sSummer \o <<" ", "2", "0", "2", "1">>
sFall2020 == sFall \o <<" ", "2", "0", "2", "0">>
sSpring2022 == sSpring \o <<" ", "2", "0", "2", "2">>
sSummer2019NoSpace == sSummer \o <<"2", "0", "1", "9">>
sFall2021Extra == sFall \o <<" ", "2", "0", "2", "1", " ", "X">>
sWinter2021 == <<"W", "i", "n", "t", "e", "r", " ", "2", "0", "2", "1">>
sFallTwoSpaces == sFall \o <<" ", " ", "2", "0", "2", "1">>
s314 == <<"3", "1", "4">>

\* rows of all_years_grade_distribution.csv, aggregation inputs
RawRowsAgg ==
  {RawRow(sCS, s314, sComputerScience, sFall2021, g, c) :
     g \in {sA, sAminus, sF, sOther}, c \in {<<"0">>, <<"3">>, <<"5">>, <<"1", "2", "0">>}}
  \cup {RawRow(sCS, s314, sComputerScience, sSpring2021, g, <<"5">>) : g \in {sA, sAplus, sOther}}
  \cup {RawRow(sCS, s314, <<>>, sFall2021, g, <<"5">>) : g \in {sA, sOther}}
  \cup {RawRow(sUDN, <<"3", "8", "0", "L">>, <<>>, sSpring2021, sA, <<"1", ",", "2", "0", "0">>),
        RawRow(sCS, <<"4", "2", "9">>, sComputerScience, sFall2021, sA, <<"5">>),
        RawRow(sCS, s314, sComputerScience, sSummer2019NoSpace, sA, <<"5">>)}

\* semester strings, semester inputs
SemesterStrings ==
  {sFall2021, sSpring2021, sSummer2021, sFall2020, sSpring2022,
   sSummer2019NoSpace, sFall2021Extra, sWinter2021, sFallTwoSpaces}

RawRowsSem == {RawRow(sCS, s314, sComputerScience, s, sA, <<"5">>) : s \in SemesterStrings}

\* characters of a course number, course-number inputs
NumChars == {"0", "1", "2", "7", "8", "9", "K"}

RawRowsNum ==
  {RawRow(sCS, n, sComputerScience, sFall2021, sA, <<"5">>) : n \in SeqsUpTo(NumChars, MaxNumLen)}

\* no earlier run of prepare_data
NoRun ==
  [pc |-> "none", error |-> "none", semesters |-> <<>>,
   prefix_scatter_df |-> <<>>, course_scatter_df |-> <<>>, bar_df |-> <<>>]

\* the flags of argparse, none given
NoArgs ==
  [prepare_only |-> FALSE, visualize_only |-> FALSE,
   download_raw |-> FALSE, upload_processed |-> FALSE]

\* prepare_data entered, the first run, main not running
LocalsAtEntry ==
  /\ pc = "start"
  /\ error = "none"
  /\ df = <<>>
  /\ semesters = <<>>
  /\ prefix_scatter_df = <<>>
  /\ course_scatter_df = <<>>
  /\ bar_df = <<>>
  /\ first = NoRun

MainNotRunning ==
  /\ args = NoArgs
  /\ mpc = "none"
  /\ trace = <<>>
  /\ output = {}
  /\ announced = ""

InitLocals ==
  /\ prefix_to_college = PrefixCollegeRows
  /\ LocalsAtEntry
  /\ MainNotRunning
  /\ processed = {}

Init == raw \in SeqsUpTo(RawRowsAgg, MaxRows) /\ InitLocals

InitSem == raw \in SeqsUpTo(RawRowsSem, MaxSemRows) /\ InitLocals

InitNum == raw \in SeqsUpTo(RawRowsNum, 1) /\ InitLocals

(***************************************************************************)
(* prepare_data, step by step.                                             *)
(***************************************************************************)
\* a sort that breaks ties afresh on every run
RunOrdersPerRun(frame) == SortOrders(frame)

\* the row order sort_values('date') gives in this run: the sort is a fixed
\* algorithm, so on a later run over the same rows it gives the order it gave
\* before (seen through the semester list, the only use made of the order)
RunOrders(frame) ==
  IF first.pc = "none" THEN SortOrders(frame)
  ELSE {p \in SortOrders(frame) : SemestersOf(frame, p) = first.semesters}

\* load_and_engineer_data: the assign chain raises when a conversion fails on
\* some row; otherwise the enriched frame and the semester list
LoadAndEngineerData ==
  /\ pc = "start"
  /\ IF \E i \in 1..Len(raw) : RowRaises(raw[i])
     THEN /\ pc' = "failed"
          /\ error' = "ValueError"
          /\ UNCHANGED <<df, semesters>>
     ELSE LET frame == [i \in 1..Len(raw) |-> Enrich(prefix_to_college, raw[i])]
          IN  \E p \in RunOrders(frame) :
                /\ df' = frame
                /\ semesters' = SemestersOf(frame, p)
                /\ pc' = "loaded"
                /\ error' = error
  /\ UNCHANGED <<raw, prefix_to_college, prefix_scatter_df, course_scatter_df, bar_df, processed>>
  /\ UNCHANGED <<first, mainVars>>

CreatePrefixScatterDf ==
  /\ pc = "loaded"
  /\ prefix_scatter_df' = create_prefix_scatter_df(df, semesters)
  /\ pc' = "prefix_built"
  /\ UNCHANGED <<raw, prefix_to_college, error, df, semesters, course_scatter_df, bar_df, processed>>
  /\ UNCHANGED <<first, mainVars>>

\* mkdir and to_csv: the file is written, or the write raises
SavePrefixScatterDf ==
  /\ pc = "prefix_built"
  /\ \E ok \in BOOLEAN :
       IF ok THEN /\ processed' = processed \cup {PrefixFile}
                  /\ pc' = "prefix_saved"
                  /\ error' = error
             ELSE /\ processed' = processed
                  /\ pc' = "failed"
                  /\ error' = "OSError"
  /\ UNCHANGED <<raw, prefix_to_college, df, semesters, prefix_scatter_df, course_scatter_df, bar_df>>
  /\ UNCHANGED <<first, mainVars>>

CreateCourseScatterDf ==
  /\ pc = "prefix_saved"
  /\ course_scatter_df' = create_course_scatter_df(df, semesters)
  /\ pc' = "course_built"
  /\ UNCHANGED <<raw, prefix_to_college, error, df, semesters, prefix_scatter_df, bar_df, processed>>
  /\ UNCHANGED <<first, mainVars>>

SaveCourseScatterDf ==
  /\ pc = "course_built"
  /\ \E ok \in BOOLEAN :
       IF ok THEN /\ processed' = processed \cup {CourseFile}
                  /\ pc' = "course_saved"
                  /\ error' = error
             ELSE /\ processed' = processed
                  /\ pc' = "failed"
                  /\ error' = "OSError"
  /\ UNCHANGED <<raw, prefix_to_college, df, semesters, prefix_scatter_df, course_scatter_df, bar_df>>
  /\ UNCHANGED <<first, mainVars>>

CreateBarDf ==
  /\ pc = "course_saved"
  /\ bar_df' = create_bar_df(df, semesters)
  /\ pc' = "bar_built"
  /\ UNCHANGED <<raw, prefix_to_college, error, df, semesters, prefix_scatter_df, course_scatter_df, processed>>
  /\ UNCHANGED <<first, mainVars>>

SaveBarDf ==
  /\ pc = "bar_built"
  /\ \E ok \in BOOLEAN :
       IF ok THEN /\ processed' = processed \cup {BarFile}
                  /\ pc' = "done"
                  /\ error' = error
             ELSE /\ processed' = processed
                  /\ pc' = "failed"
                  /\ error' = "OSError"
  /\ UNCHANGED <<raw, prefix_to_college, df, semesters, prefix_scatter_df, course_scatter_df, bar_df>>
  /\ UNCHANGED <<first, mainVars>>

Next ==
  \/ LoadAndEngineerData
  \/ CreatePrefixScatterDf
  \/ SavePrefixScatterDf
  \/ CreateCourseScatterDf
  \/ SaveCourseScatterDf
  \/ CreateBarDf
  \/ SaveBarDf

Spec == Init /\ [][Next]_vars

SpecSem == InitSem /\ [][Next]_vars

SpecNum == InitNum /\ [][Next]_vars

(***************************************************************************)
(* prepare_data run twice on the same raw files.                           *)
(***************************************************************************)
\* rows of all_years_grade_distribution.csv, inputs of the two runs: two
\* semester strings of one term_date, a second term, a string that fails
RawRowsTwice ==
  {RawRow(sCS, s314, sComputerScience, s, g, <<"5">>) :
     s \in {sFall2021, sFall2021Extra, sSpring2021}, g \in {sA, sOther}}
  \cup {RawRow(sCS, s314, sComputerScience, sSummer2019NoSpace, sA, <<"5">>)}

InitTwice == raw \in SeqsUpTo(RawRowsTwice, MaxRows) /\ InitLocals

\* prepare_data called again once a run has ended: its locals start afresh,
\* the raw files and the files of data/processed are as the run left them
Rerun ==
  /\ pc \in {"done", "failed"}
  /\ first.pc = "none"
  /\ first' = [pc |-> pc, error |-> error, semesters |-> semesters,
               prefix_scatter_df |-> prefix_scatter_df,
               course_scatter_df |-> course_scatter_df, bar_df |-> bar_df]
  /\ pc' = "start"
  /\ error' = "none"
  /\ df' = <<>>
  /\ semesters' = <<>>
  /\ prefix_scatter_df' = <<>>
  /\ course_scatter_df' = <<>>
  /\ bar_df' = <<>>
  /\ UNCHANGED <<raw, prefix_to_college, processed, mainVars>>

NextTwice ==
  \/ Next
  \/ Rerun

SpecTwice == InitTwice /\ [][NextTwice]_vars

(***************************************************************************)
(* prepare_data over varying prefix_to_college.csv files.                  *)
(***************************************************************************)
\* rows of prefix_to_college.csv: two course codes, two colleges, one of the
\* colleges spelled like a course prefix
MapRows ==
  {[COURSE_CODE |-> c, COLLEGE |-> g] : c \in {sCS, sECE}, g \in {sNaturalSciences, sLAW}}

\* two rows of the raw file that differ in their department at most
RawPairsCollege ==
  {<<RawRow(p, s314, d1, sFall2021, sA, <<"5">>), RawRow(p, s314, d2, sFall2021, sA, <<"5">>)>> :
     p \in {sCS, sECE, sUDN, sLAW},
     d1 \in {<<>>, sComputerScience}, d2 \in {<<>>, sComputerScience, sUrbanDesign}}

InitCollege ==
  /\ raw \in RawPairsCollege
  /\ prefix_to_college \in SeqsUpTo(MapRows, MaxMapRows)
  /\ LocalsAtEntry
  /\ MainNotRunning
  /\ processed = {}

SpecCollege == InitCollege /\ [][Next]_vars

(***************************************************************************)
(* main: the four steps, each run or skipped by the flags.  trace holds    *)
(* the steps begun and how each ended: "end" returned, "error" raised and  *)
(* caught by main, "raise" raised through main.                            *)
(***************************************************************************)
\* if args.download_raw and not args.visualize_only
DownloadEnabledAnyMode(a) == a.download_raw

DownloadEnabled(a) == a.download_raw /\ ~a.visualize_only

\* if not args.visualize_only
PrepareEnabled(a) == ~a.visualize_only

\* if not args.prepare_only
VisualizeEnabled(a) == ~a.prepare_only

\* if args.upload_processed and not args.visualize_only
UploadEnabled(a) == a.upload_processed /\ ~a.visualize_only

\* output_dir / 'UT_historical_class_grades.html', the file create_dashboard saves
DashboardFile == "UT_historical_class_grades.html"

\* output_dir / 'ut-grades-dashboard.html', the file main tells the user to open
AnnouncedFile == "ut-grades-dashboard.html"

ProcessedFiles == {PrefixFile, CourseFile, BarFile}

\* rows of the raw file, inputs of main: one that loads and one that fails
RawRowsMain ==
  {RawRow(sCS, s314, sComputerScience, sFall2021, sA, <<"5">>),
   RawRow(sCS, s314, sComputerScience, sSummer2019NoSpace, sA, <<"5">>)}

\* main after parse_args and output_dir.mkdir: any flags; data/processed
\* empty or holding the tables of an earlier run
InitMain ==
  /\ raw \in SeqsUpTo(RawRowsMain, 1)
  /\ prefix_to_college = PrefixCollegeRows
  /\ LocalsAtEntry
  /\ processed \in {{}, ProcessedFiles}
  /\ args \in [prepare_only : BOOLEAN, visualize_only : BOOLEAN,
                download_raw : BOOLEAN, upload_processed : BOOLEAN]
  /\ mpc = "download"
  /\ trace = <<>>
  /\ output = {}
  /\ announced = ""

prepareVars ==
  <<raw, prefix_to_college, pc, error, df, semesters,
    prefix_scatter_df, course_scatter_df, bar_df, processed, first>>

StartDownload ==
  /\ mpc = "download"
  /\ IF DownloadEnabled(args)
     THEN /\ trace' = Append(trace, <<"begin", "download">>)
          /\ mpc' = "downloading"
     ELSE /\ trace' = trace
          /\ mpc' = "prepare"
  /\ UNCHANGED <<prepareVars, args, output, announced>>

\* download_raw_data returns, or raises and main prints the error and goes on
EndDownload ==
  /\ mpc = "downloading"
  /\ \E ok \in BOOLEAN :
       trace' = Append(trace, <<IF ok THEN "end" ELSE "error", "download">>)
  /\ mpc' = "prepare"
  /\ UNCHANGED <<prepareVars, args, output, announced>>

StartPrepare ==
  /\ mpc = "prepare"
  /\ IF PrepareEnabled(args)
     THEN /\ trace' = Append(trace, <<"begin", "prepare">>)
          /\ mpc' = "preparing"
     ELSE /\ trace' = trace
          /\ mpc' = "visualize"
  /\ UNCHANGED <<prepareVars, args, output, announced>>

\* prepare_data(data_dir=data_dir), step by step
PrepareData == mpc = "preparing" /\ Next

EndPrepare ==
  /\ mpc = "preparing"
  /\ pc = "done"
  /\ trace' = Append(trace, <<"end", "prepare">>)
  /\ mpc' = "visualize"
  /\ UNCHANGED <<prepareVars, args, output, announced>>

\* an exception of prepare_data is not caught: main ends with it
PrepareRaises ==
  /\ mpc = "preparing"
  /\ pc = "failed"
  /\ trace' = Append(trace, <<"raise", "prepare">>)
  /\ mpc' = "aborted"
  /\ UNCHANGED <<prepareVars, args, output, announced>>

StartVisualize ==
  /\ mpc = "visualize"
  /\ IF VisualizeEnabled(args)
     THEN /\ trace' = Append(trace, <<"begin", "visualize">>)
          /\ mpc' = "visualizing"
     ELSE /\ trace' = trace
          /\ mpc' = "upload"
  /\ UNCHANGED <<prepareVars, args, output, announced>>

\* create_dashboard: read_csv of the three processed tables raises when one is
\* missing; otherwise the chart is saved to output_path
CreateDashboard ==
  /\ mpc = "visualizing"
  /\ IF ProcessedFiles \subseteq processed
     THEN /\ output' = output \cup {DashboardFile}
          /\ trace' = Append(trace, <<"end", "visualize">>)
          /\ mpc' = "upload"
     ELSE /\ output' = output
          /\ trace' = Append(trace, <<"raise", "visualize">>)
          /\ mpc' = "aborted"
  /\ UNCHANGED <<prepareVars, args, announced>>

StartUpload ==
  /\ mpc = "upload"
  /\ IF UploadEnabled(args)
     THEN /\ trace' = Append(trace, <<"begin", "upload">>)
          /\ mpc' = "uploading"
     ELSE /\ trace' = trace
          /\ mpc' = "finish"
  /\ UNCHANGED <<prepareVars, args, output, announced>>

\* upload_processed_data returns, or raises and main prints the error
EndUpload ==
  /\ mpc = "uploading"
  /\ \E ok \in BOOLEAN :
       trace' = Append(trace, <<IF ok THEN "end" ELSE "error", "upload">>)
  /\ mpc' = "finish"
  /\ UNCHANGED <<prepareVars, args, output, announced>>

\* "Pipeline complete!" and, unless --prepare-only, the file to open
Complete ==
  /\ mpc = "finish"
  /\ announced' = IF ~args.prepare_only THEN AnnouncedFile ELSE ""
  /\ mpc' = "complete"
  /\ UNCHANGED <<prepareVars, args, trace, output>>

NextMain ==
  \/ StartDownload
  \/ EndDownload
  \/ StartPrepare
  \/ PrepareData
  \/ EndPrepare
  \/ PrepareRaises
  \/ StartVisualize
  \/ CreateDashboard
  \/ StartUpload
  \/ EndUpload
  \/ Complete

SpecMain == InitMain /\ [][NextMain]_vars

(***************************************************************************)
(* Properties.                                                             *)
(***************************************************************************)
\* the three tables have been built
Built == pc \in {"bar_built", "done"}

\* a row of the frame belongs to the slice of a label
InSlice(row, label) == label = sAll \/ row.semester = label

\* the student counts of the rows of a frame that satisfy P, summed
StudentsWhere(frame, P(_)) ==
  SeqSum([i \in 1..Len(frame) |-> IF P(frame[i]) THEN frame[i].num_students ELSE 0])

\* the grade-point mass (hundredths) of the rows that satisfy P and have a GPA
PointsWhere(frame, P(_)) ==
  SeqSum([i \in 1..Len(frame) |->
            IF P(frame[i]) /\ frame[i].gpa # NaN
            THEN frame[i].gpa * frame[i].num_students ELSE 0])

SamePrefixGroup(row, g) ==
  /\ g.college = row.college
  /\ g.course_prefix = row.course_prefix
  /\ g.department = row.department

SameCourseGroup(row, g) ==
  /\ g.college = row.college
  /\ g.course_prefix = row.course_prefix
  /\ g.course_number = row.course_number
  /\ g.department = row.department

SameBarGroup(row, g) == SameCourseGroup(row, g) /\ g.letter_grade = row.letter_grade

\* C1: every row whose letter grade is "Other" has its student count included
\* in total_students of its group in the prefix table, the course table and
\* the grade-distribution table, in the "All" slice and in the slice of its
\* semester; the grade-distribution table holds a row for "Other" with it.
C1_OtherCountedEverywhere ==
  Built =>
    \A i \in 1..Len(df) :
      df[i].letter_grade = sOther =>
        \A label \in {sAll, df[i].semester} :
          /\ \E j \in 1..Len(prefix_scatter_df) :
               /\ prefix_scatter_df[j].semester = label
               /\ SamePrefixGroup(df[i], prefix_scatter_df[j])
               /\ prefix_scatter_df[j].total_students =
                    StudentsWhere(df, LAMBDA r : InSlice(r, label)
                                                 /\ SamePrefixGroup(r, prefix_scatter_df[j]))
          /\ \E j \in 1..Len(course_scatter_df) :
               /\ course_scatter_df[j].semester = label
               /\ SameCourseGroup(df[i], course_scatter_df[j])
               /\ course_scatter_df[j].total_students =
                    StudentsWhere(df, LAMBDA r : InSlice(r, label)
                                                 /\ SameCourseGroup(r, course_scatter_df[j]))
          /\ \E j \in 1..Len(bar_df) :
               /\ bar_df[j].semester = label
               /\ SameBarGroup(df[i], bar_df[j])
               /\ bar_df[j].total_students =
                    StudentsWhere(df, LAMBDA r : InSlice(r, label)
                                                 /\ SameBarGroup(r, bar_df[j]))

\* the frame without its "Other" rows
WithoutOther(frame) == SelectSeq(frame, LAMBDA r : r.letter_grade # sOther)

\* C2: "Other" rows do not enter average_grade: for every group and slice of
\* the prefix table and of the course table, average_grade is what it is when
\* the "Other" rows are left out of the input.
C2_OtherNotInAverage ==
  Built =>
    /\ \A j \in 1..Len(prefix_scatter_df) :
         \A g \in {create_prefix_scatter_df(WithoutOther(df), semesters)[k] :
                     k \in 1..Len(create_prefix_scatter_df(WithoutOther(df), semesters))} :
           (g.semester = prefix_scatter_df[j].semester /\ SamePrefixGroup(g, prefix_scatter_df[j]))
             => g.avg_gpa = prefix_scatter_df[j].avg_gpa
    /\ \A j \in 1..Len(course_scatter_df) :
         \A g \in {create_course_scatter_df(WithoutOther(df), semesters)[k] :
                     k \in 1..Len(create_course_scatter_df(WithoutOther(df), semesters))} :
           (g.semester = course_scatter_df[j].semester /\ SameCourseGroup(g, course_scatter_df[j]))
             => g.avg_gpa = course_scatter_df[j].avg_gpa

\* C3: for every (college, prefix, number, department) key, total_students
\* summed over the letter-grade rows of the key in the "All" slice of the
\* grade-distribution table is total_students of the key in the "All" slice
\* of the course table.
C3_BarSumsToCourse ==
  Built =>
    \A j \in 1..Len(course_scatter_df) :
      course_scatter_df[j].semester = sAll =>
        course_scatter_df[j].total_students =
          SeqSum([k \in 1..Len(bar_df) |->
                    IF bar_df[k].semester = sAll /\ SameCourseGroup(bar_df[k], course_scatter_df[j])
                    THEN bar_df[k].total_students ELSE 0])

\* a is q rounded to 4 decimals, half to even, q the quotient of g hundredths
\* by t: a is an integer of units of 0.0001 nearest to 100 * g / t
IsRounded(a, g, t) ==
  LET diff == IF a * t >= 100 * g THEN a * t - 100 * g ELSE 100 * g - a * t
  IN  /\ 2 * diff <= t
      /\ 2 * diff = t => a % 2 = 0

\* the two rows of CS 314, "Fall 2021": grade A with 120 students, F with 5
ExampleA == RawRow(sCS, s314, sComputerScience, sFall2021, sA, <<"1", "2", "0">>)
ExampleF == RawRow(sCS, s314, sComputerScience, sFall2021, sF, <<"5">>)

C5_DivisionThresholds ==
  \A i \in 1..Len(df) :
    /\ df[i].Division \in {sLower, sUpper, sGraduate}
    /\ df[i].course_number_int \in 0..19 <=> df[i].Division = sLower
    /\ df[i].course_number_int \in 20..79 <=> df[i].Division = sUpper
    /\ df[i].course_number_int >= 80 <=> df[i].Division = sGraduate
    /\ df[i].course_number = <<"0", "1", "9">> => df[i].Division = sLower
    /\ df[i].course_number = <<"0", "2", "0">> => df[i].Division = sUpper
    /\ df[i].course_number = <<"0", "8", "0">> => df[i].Division = sGraduate
    /\ \A j \in 1..Len(course_scatter_df) :
         course_scatter_df[j].course_number = df[i].course_number
           => course_scatter_df[j].Division = df[i].Division

\* course "020" is loaded, classified and carried into the course table
C5_Witness ==
  /\ pc = "done"
  /\ df[1].course_number = <<"0", "2", "0">>
  /\ df[1].course_number_int = 20
  /\ course_scatter_df[1].Division = sUpper

\* position of a slice label in a table: 0 for "All", k for the k-th semester
SliceIndex(label) ==
  IF label = sAll THEN 0
  ELSE CHOOSE k \in 1..Len(semesters) : semesters[k] = label

Labels(table) == {table[j].semester : j \in 1..Len(table)}

SlicesInOrder(table) ==
  /\ Labels(table) \subseteq {sAll} \cup {semesters[k] : k \in 1..Len(semesters)}
  /\ \A i, j \in 1..Len(table) :
       i < j => SliceIndex(table[i].semester) <= SliceIndex(table[j].semester)

\* C6: each of the three tables is the "All" slice followed by one slice per
\* semester of the list, in list order, and has exactly len(semesters)+1 row
\* groups.
C6_SlicesPerSemester ==
  Built =>
    \A table \in {prefix_scatter_df, course_scatter_df, bar_df} :
      /\ SlicesInOrder(table)
      /\ Cardinality(Labels(table)) = Len(semesters) + 1

\* rank of a term within its year
TermRank(name) ==
  IF name = sSpring THEN 1 ELSE IF name = sSummer THEN 2 ELSE 3

\* C7: the semester list holds every distinct semester string of the input
\* once and is ascending in term_date: a semester of an earlier term_date
\* never follows one of a later term_date (within a year Spring, Summer, Fall),
\* whatever the order of the input rows.
C7_SemesterListOrdered ==
  pc \notin {"start", "failed"} =>
    /\ \A i, j \in 1..Len(semesters) : i # j => semesters[i] # semesters[j]
    /\ {semesters[k] : k \in 1..Len(semesters)} = {raw[i].semester : i \in 1..Len(raw)}
    /\ \A a, b \in 1..Len(df) :
         /\ df[a].date < df[b].date
              => SliceIndex(df[a].semester) < SliceIndex(df[b].semester)
         /\ (\/ df[a].semester_year < df[b].semester_year
             \/ /\ df[a].semester_year = df[b].semester_year
                /\ TermRank(df[a].semester_name) < TermRank(df[b].semester_name))
              => SliceIndex(df[a].semester) < SliceIndex(df[b].semester)

\* rows given as Fall, Spring, Summer of one year come out Spring, Summer, Fall
C7_Witness ==
  /\ pc = "loaded"
  /\ [i \in 1..Len(raw) |-> raw[i].semester] = <<sFall2021, sSpring2021, sSummer2021>>
  /\ semesters = <<sSpring2021, sSummer2021, sFall2021>>

\* C8 as stated: load_and_engineer_data fails, with no enriched rows, whenever
\* some semester string does not split into exactly two tokens, be it one
\* token or three and more.
C8_FailsUnlessTwoTokens ==
  (\E i \in 1..Len(raw) : Len(Split(raw[i].semester)) # 2)
    => pc \in {"start", "failed"} /\ df = <<>>

\* C8 as amended: load_and_engineer_data fails, with no enriched rows,
\* whenever some semester string has no second space-separated token or a
\* second token that is not an integer; a string of three or more tokens
\* whose first two are a known term and a year is accepted, the tokens after
\* the second being ignored; semester_year of an enriched row is always the
\* integer its second token spells.
C8_FailsWithoutYearToken ==
  /\ (\E i \in 1..Len(raw) :
        \/ Len(Split(raw[i].semester)) < 2
        \/ \E k \in 1..Len(Split(raw[i].semester)[2]) : ~IsDigit(Split(raw[i].semester)[2][k])
        \/ Split(raw[i].semester)[2] = <<>>)
       => /\ pc \in {"start", "failed"}
          /\ df = <<>>
          /\ pc = "failed" => error = "ValueError"
  /\ \A i \in 1..Len(df) :
       /\ Len(Split(df[i].semester)) >= 2
       /\ IntToStr(df[i].semester_year) = Split(df[i].semester)[2]
  /\ (\A i \in 1..Len(raw) :
        /\ Len(Split(raw[i].semester)) >= 2
        /\ Split(raw[i].semester)[1] \in {sFall, sSpring, sSummer}
        /\ Len(Split(raw[i].semester)[2]) = 4
        /\ \A k \in 1..4 : IsDigit(Split(raw[i].semester)[2][k]))
       => error # "ValueError"

\* "Summer2019" makes the load fail and leaves no enriched row
C8_Witness ==
  /\ pc = "failed"
  /\ error = "ValueError"
  /\ df = <<>>
  /\ \E i \in 1..Len(raw) : raw[i].semester = sSummer2019NoSpace

\* C9: a run of prepare_data that fails has written none of the three tables;
\* after any run all three are written or none is.
C9_NoPartialOutput ==
  /\ pc = "failed" => processed = {}
  /\ pc \in {"failed", "done"} => processed \in {{}, {PrefixFile, CourseFile, BarFile}}

\* C10: the aggregators never fault on a zero denominator or an empty subset:
\* a group of 0 students has an undefined average_grade where a group of
\* more has a number, and a failed run failed in the load or in a write,
\* never in a reducer.
C10_ZeroDenominatorUndefined ==
  /\ \A j \in 1..Len(prefix_scatter_df) :
       /\ prefix_scatter_df[j].total_students = 0 => prefix_scatter_df[j].avg_gpa = NaN
       /\ prefix_scatter_df[j].total_students > 0 => prefix_scatter_df[j].avg_gpa >= 0
  /\ \A j \in 1..Len(course_scatter_df) :
       /\ course_scatter_df[j].total_students = 0 => course_scatter_df[j].avg_gpa = NaN
       /\ course_scatter_df[j].total_students > 0 => course_scatter_df[j].avg_gpa >= 0
  /\ pc = "failed" => \/ error = "ValueError" /\ df = <<>> /\ prefix_scatter_df = <<>>
                      \/ error = "OSError"

\* a group of 0 students, and a semester of the list whose slice is empty
C10_Witness ==
  /\ pc = "done"
  /\ \E j \in 1..Len(prefix_scatter_df) :
       prefix_scatter_df[j].total_students = 0 /\ prefix_scatter_df[j].avg_gpa = NaN
  /\ \E k \in 1..Len(semesters) : semesters[k] \notin Labels(prefix_scatter_df)

StepRank(step) ==
  IF step = "download" THEN 1
  ELSE IF step = "prepare" THEN 2
  ELSE IF step = "visualize" THEN 3
  ELSE 4

StepEnabled(step) ==
  IF step = "download" THEN args.download_raw /\ ~args.visualize_only
  ELSE IF step = "prepare" THEN ~args.visualize_only
  ELSE IF step = "visualize" THEN ~args.prepare_only
  ELSE args.upload_processed /\ ~args.visualize_only

Begun(step) == \E i \in 1..Len(trace) : trace[i] = <<"begin", step>>

\* C12: in every run of main the enabled steps execute in the order download,
\* data preparation, visualization, upload, each starting only after the
\* step before it has ended; visualization starts only if data preparation
\* completed without error or was skipped by --visualize-only; with
\* --visualize-only no download, data preparation or upload step runs.
C12_StepsInOrder ==
  /\ \A i, j \in 1..Len(trace) :
       i < j /\ trace[i][1] = "begin" /\ trace[j][1] = "begin"
         => StepRank(trace[i][2]) < StepRank(trace[j][2])
  /\ \A j \in 1..Len(trace) :
       IF j % 2 = 1
       THEN /\ trace[j][1] = "begin"
            /\ StepEnabled(trace[j][2])
            /\ j > 1 => trace[j - 1][1] \in {"end", "error"}
       ELSE /\ trace[j][1] \in {"end", "error", "raise"}
            /\ trace[j][2] = trace[j - 1][2]
  /\ \A j \in 1..Len(trace) :
       trace[j] = <<"begin", "visualize">>
         => \/ args.visualize_only
            \/ \E i \in 1..(j - 1) : trace[i] = <<"end", "prepare">>
  /\ Begun("visualize") /\ ~args.visualize_only => pc = "done"
  /\ pc # "start" => Begun("prepare")
  /\ args.visualize_only
       => \A j \in 1..Len(trace) : trace[j][2] \notin {"download", "prepare", "upload"}
  /\ mpc = "complete"
       => \A step \in {"download", "prepare", "visualize", "upload"} :
            StepEnabled(step)
              => \E i \in 1..Len(trace) :
                   /\ trace[i] = <<"begin", step>>
                   /\ i < Len(trace)
                   /\ trace[i + 1][1] \in {"end", "error"}

\* a run with --download-raw and --upload-processed that ran all four steps
C12_Witness ==
  /\ mpc = "complete"
  /\ args.download_raw /\ args.upload_processed
  /\ ~args.prepare_only /\ ~args.visualize_only
  /\ [j \in 1..Len(trace) |-> trace[j][2]]
       = <<"download", "download", "prepare", "prepare",
           "visualize", "visualize", "upload", "upload">>
  /\ pc = "done"

\* C15: after a run of main without --prepare-only completes, the dashboard
\* HTML file exists at the path main tells the user to open: the path
\* create_dashboard writes is the path main announces.
C15_DashboardAtAnnouncedPath ==
  mpc = "complete" /\ ~args.prepare_only
    => /\ announced # ""
       /\ announced \in output
       /\ announced = DashboardFile

\* C13: the college of an enriched row depends only on its course prefix and
\* the prefix-to-college map: it is the college mapped to the prefix when the
\* prefix is a key of the map and "Other" otherwise; two rows that differ only
\* in their department (empty, overridden for UDN and ECE, or filled) get the
\* same college.
C13_CollegeFromPrefixOnly ==
  \A i \in 1..Len(df) :
    /\ df[i].college =
         IF \E k \in 1..Len(prefix_to_college) :
              prefix_to_college[k].COURSE_CODE = df[i].course_prefix
         THEN prefix_to_college_dict(prefix_to_college, df[i].course_prefix)
         ELSE sOther
    /\ \A j \in 1..Len(df) :
         df[j].course_prefix = df[i].course_prefix => df[j].college = df[i].college

\* month and day of a term as a number mmdd
TermMonthDay(name) ==
  IF name = sFall THEN 825 ELSE IF name = sSpring THEN 120 ELSE 601

\* C14: term_date of an enriched row is semester_year-08-25 for Fall,
\* semester_year-01-20 for Spring and semester_year-06-01 for Summer; a row
\* whose semester name is none of the three gets an undefined term_date and
\* is still part of the enriched collection: enrichment does not abort.
C14_TermDateOrSentinel ==
  /\ \A i \in 1..Len(df) :
       df[i].semester_name \in {sFall, sSpring, sSummer}
         => df[i].date = df[i].semester_year * 10000 + TermMonthDay(df[i].semester_name)
  /\ (/\ pc # "start"
      /\ \A i \in 1..Len(raw) :
           /\ ~num_students_raises(raw[i])
           /\ ~gpa_raises(raw[i])
           /\ ~semester_year_raises(raw[i])
           /\ ~course_number_int_raises(raw[i]))
       => /\ error # "ValueError"
          /\ Len(df) = Len(raw)
          /\ \A i \in 1..Len(df) :
               df[i].semester_name \notin {sFall, sSpring, sSummer} => df[i].date = NaN

\* the aggregation key of a table row: its columns but the aggregates and the
\* slice label
KeyOf(row) ==
  [f \in DOMAIN row \ {"total_students", "gpa_total", "avg_gpa", "semester"} |-> row[f]]

SliceConsistent(table) ==
  /\ \A j \in 1..Len(table) :
       table[j].semester # sAll
         => \E a \in 1..Len(table) :
              table[a].semester = sAll /\ KeyOf(table[a]) = KeyOf(table[j])
  /\ \A a \in 1..Len(table) :
       table[a].semester = sAll
         => table[a].total_students =
              SeqSum([j \in 1..Len(table) |->
                        IF table[j].semester # sAll /\ KeyOf(table[j]) = KeyOf(table[a])
                        THEN table[j].total_students ELSE 0])

\* C16: in each of the three tables, for every aggregation key, total_students
\* of the "All" slice equals the sum of the key's total_students over the
\* per-semester slices, and every key of a per-semester slice is a key of the
\* "All" slice.
C16_SlicesSumToAll ==
  /\ SliceConsistent(prefix_scatter_df)
  /\ SliceConsistent(course_scatter_df)
  /\ SliceConsistent(bar_df)

\* a key of the grade-distribution table with students in two semesters
C16_Witness ==
  /\ pc = "done"
  /\ \E a, j, k \in 1..Len(bar_df) :
       /\ bar_df[a].semester = sAll
       /\ bar_df[j].semester = sFall2021
       /\ bar_df[k].semester = sSpring2021
       /\ KeyOf(bar_df[j]) = KeyOf(bar_df[a])
       /\ KeyOf(bar_df[k]) = KeyOf(bar_df[a])
       /\ bar_df[j].total_students > 0
       /\ bar_df[k].total_students > 0
       /\ bar_df[a].total_students = bar_df[j].total_students + bar_df[k].total_students
  /\ Len(prefix_scatter_df) = 3
  /\ Len(course_scatter_df) = 3

====
